---- MODULE Spec2Model ----
(***************************************************************************)
(* Model of src/preprocessing/voronoi.py: voronoi_finite_polygons_2d       *)
(* (reconstruction of the unbounded Voronoi regions) and save_2d_area      *)
(* (clipping to the sites' bounding rectangle, assignment of each region   *)
(* to a unit, and the table written to assets/2d_area).                    *)
(*                                                                         *)
(* Numbers.  The program computes in IEEE doubles.  The model computes in  *)
(* fixed point: every coordinate is an integer number of tenths, so the    *)
(* site (3, 4) is <<30, 40>>.  Sums, differences, orientation tests and    *)
(* the sign of a dot product are exact; a quotient is rounded to the       *)
(* nearest tenth (RoundDiv), where the program rounds to the nearest       *)
(* double.  The diagrams below are chosen with Voronoi vertices that are   *)
(* exact in tenths.                                                        *)
(*                                                                         *)
(* Indices.  Sequences of the model are 1-based; the values stored in      *)
(* them (vertex indices, region indices, site indices, units) are the      *)
(* program's 0-based indices, read through Item, which also gives Python's *)
(* meaning to a negative index.                                            *)
(***************************************************************************)
EXTENDS Integers, Sequences, FiniteSets, TLC

\* Largest number of sites of a batch (the diagrams of Batches with more sites are left out).
MaxSites == 5

\* Side of the grid the sites of the assignment check are drawn from, and how many sites.
GridMax == 3
MaxOffered == 2

-----------------------------------------------------------------------------
(* Arithmetic *)

Abs(a) == IF a < 0 THEN -a ELSE a

\* np.sign
Sign(a) == IF a > 0 THEN 1 ELSE IF a < 0 THEN -1 ELSE 0

Min2(a, b) == IF a <= b THEN a ELSE b
Max2(a, b) == IF a >= b THEN a ELSE b

SetMin(S) == CHOOSE m \in S : \A k \in S : m <= k
SetMax(S) == CHOOSE m \in S : \A k \in S : m >= k

\* a / b rounded to the nearest integer (b # 0); the program's float division
RoundDiv(a, b) ==
    LET n == IF b < 0 THEN -a ELSE a
        d == Abs(b)
    IN  (2 * n + d) \div (2 * d)

RECURSIVE SqrtBetween(_, _, _)
SqrtBetween(n, lo, hi) ==
    IF lo >= hi THEN lo
    ELSE LET mid == (lo + hi + 1) \div 2
         IN  IF mid * mid <= n THEN SqrtBetween(n, mid, hi)
                               ELSE SqrtBetween(n, lo, mid - 1)

\* floor of the square root
ISqrt(n) == SqrtBetween(n, 0, Min2(n, 46340))

\* Python's s[i]: 0-based, a negative index counts from the end
Item(s, i) == IF i >= 0 THEN s[i + 1] ELSE s[Len(s) + i + 1]

\* s[i] does not raise IndexError
InRange(s, i) == -Len(s) <= i /\ i < Len(s)

Indices(s) == 0 .. (Len(s) - 1)

Vec(a, b) == <<b[1] - a[1], b[2] - a[2]>>
Dot(a, b) == a[1] * b[1] + a[2] * b[2]
Cross(a, b) == a[1] * b[2] - a[2] * b[1]

RECURSIVE SumSeq(_)
SumSeq(s) == IF s = <<>> THEN 0 ELSE Head(s) + SumSeq(Tail(s))

\* the componentwise sum of a sequence of points
PointSum(ps) ==
    << SumSeq([i \in 1 .. Len(ps) |-> ps[i][1]]),
       SumSeq([i \in 1 .. Len(ps) |-> ps[i][2]]) >>

-----------------------------------------------------------------------------
(* The diagram adapter: vor = Voronoi(centers_2d[['X', 'Y']].values).      *)
(* Each record is the Voronoi diagram of the sites named above it:         *)
(* vertices are the circumcentres of the Delaunay triangles; a region      *)
(* lists the vertices of a site's cell in ring order, with -1 when the     *)
(* cell is unbounded; a ridge separates two sites and carries its two      *)
(* vertices, -1 for the end at infinity.  The adapter lists an empty       *)
(* region first and point_region maps each site to its region.             *)

Batches ==
    {
      \* sites (1, 0) (2, 1) (0, 1)
      [ points |-> <<<<10, 0>>, <<20, 10>>, <<0, 10>>>>,
        vertices |-> <<<<10, 10>>>>,
        regions |-> <<<<>>, <<-1, 0>>, <<-1, 0>>, <<-1, 0>>>>,
        point_region |-> <<3, 2, 1>>,
        ridge_points |-> <<<<0, 1>>, <<0, 2>>, <<1, 2>>>>,
        ridge_vertices |-> <<<<-1, 0>>, <<-1, 0>>, <<-1, 0>>>> ],
      \* sites (4, 1) (0, 4) (4, 0)
      [ points |-> <<<<40, 10>>, <<0, 40>>, <<40, 0>>>>,
        vertices |-> <<<<5, 5>>>>,
        regions |-> <<<<>>, <<-1, 0>>, <<-1, 0>>, <<-1, 0>>>>,
        point_region |-> <<3, 2, 1>>,
        ridge_points |-> <<<<0, 1>>, <<0, 2>>, <<1, 2>>>>,
        ridge_vertices |-> <<<<-1, 0>>, <<-1, 0>>, <<-1, 0>>>> ],
      \* sites (0, 5) (5, 0) (3, 4)
      [ points |-> <<<<0, 50>>, <<50, 0>>, <<30, 40>>>>,
        vertices |-> <<<<0, 0>>>>,
        regions |-> <<<<>>, <<-1, 0>>, <<-1, 0>>, <<-1, 0>>>>,
        point_region |-> <<3, 2, 1>>,
        ridge_points |-> <<<<0, 1>>, <<0, 2>>, <<1, 2>>>>,
        ridge_vertices |-> <<<<-1, 0>>, <<-1, 0>>, <<-1, 0>>>> ],
      \* sites (6, 2) (3, 6) (4, 5)
      [ points |-> <<<<60, 20>>, <<30, 60>>, <<40, 50>>>>,
        vertices |-> <<<<-55, -35>>>>,
        regions |-> <<<<>>, <<-1, 0>>, <<-1, 0>>, <<-1, 0>>>>,
        point_region |-> <<3, 2, 1>>,
        ridge_points |-> <<<<0, 1>>, <<0, 2>>, <<1, 2>>>>,
        ridge_vertices |-> <<<<-1, 0>>, <<-1, 0>>, <<-1, 0>>>> ],
      \* sites (2, 1) (1, 0) (1, 2) (0, 0)
      [ points |-> <<<<20, 10>>, <<10, 0>>, <<10, 20>>, <<0, 0>>>>,
        vertices |-> <<<<10, 10>>, <<5, 10>>>>,
        regions |-> <<<<>>, <<-1, 1>>, <<-1, 1, 0>>, <<-1, 0, 1>>, <<-1, 0>>>>,
        point_region |-> <<4, 3, 2, 1>>,
        ridge_points |-> <<<<0, 1>>, <<0, 2>>, <<1, 2>>, <<1, 3>>, <<2, 3>>>>,
        ridge_vertices |-> <<<<-1, 0>>, <<-1, 0>>, <<0, 1>>, <<-1, 1>>, <<-1, 1>>>> ],
      \* sites (0, 0) (0, 1) (1, 0) (1, 1)
      [ points |-> <<<<0, 0>>, <<0, 10>>, <<10, 0>>, <<10, 10>>>>,
        vertices |-> <<<<5, 5>>>>,
        regions |-> <<<<>>, <<-1, 0>>, <<-1, 0>>, <<-1, 0>>, <<-1, 0>>>>,
        point_region |-> <<4, 3, 2, 1>>,
        ridge_points |-> <<<<0, 1>>, <<0, 2>>, <<1, 3>>, <<2, 3>>>>,
        ridge_vertices |-> <<<<-1, 0>>, <<-1, 0>>, <<-1, 0>>, <<-1, 0>>>> ],
      \* sites (1, 2) (2, 1) (0, 0) (1, 1)
      [ points |-> <<<<10, 20>>, <<20, 10>>, <<0, 0>>, <<10, 10>>>>,
        vertices |-> <<<<15, 15>>, <<-5, 15>>, <<15, -5>>>>,
        regions |-> <<<<>>, <<2, 0, 1>>, <<-1, 2, 1>>, <<-1, 2, 0>>, <<-1, 1, 0>>>>,
        point_region |-> <<4, 3, 2, 1>>,
        ridge_points |-> <<<<0, 1>>, <<0, 2>>, <<0, 3>>, <<1, 2>>, <<1, 3>>, <<2, 3>>>>,
        ridge_vertices |-> <<<<-1, 0>>, <<-1, 1>>, <<0, 1>>, <<-1, 2>>, <<0, 2>>, <<1, 2>>>> ],
      \* sites (5, 0) (1, 5) (0, 5) (4, 3)
      [ points |-> <<<<50, 0>>, <<10, 50>>, <<0, 50>>, <<40, 30>>>>,
        vertices |-> <<<<0, 0>>, <<5, 10>>>>,
        regions |-> <<<<>>, <<-1, 1, 0>>, <<-1, 0, 1>>, <<-1, 1>>, <<-1, 0>>>>,
        point_region |-> <<4, 3, 2, 1>>,
        ridge_points |-> <<<<0, 2>>, <<0, 3>>, <<1, 2>>, <<1, 3>>, <<2, 3>>>>,
        ridge_vertices |-> <<<<-1, 0>>, <<-1, 0>>, <<-1, 1>>, <<-1, 1>>, <<0, 1>>>> ],
      \* sites (0, 6) (3, 4) (5, 2) (6, 2)
      [ points |-> <<<<0, 60>>, <<30, 40>>, <<50, 20>>, <<60, 20>>>>,
        vertices |-> <<<<-75, -85>>, <<55, 45>>>>,
        regions |-> <<<<>>, <<-1, 1>>, <<-1, 0, 1>>, <<-1, 0, 1>>, <<-1, 0>>>>,
        point_region |-> <<4, 3, 2, 1>>,
        ridge_points |-> <<<<0, 1>>, <<0, 2>>, <<1, 2>>, <<1, 3>>, <<2, 3>>>>,
        ridge_vertices |-> <<<<-1, 0>>, <<-1, 0>>, <<0, 1>>, <<-1, 1>>, <<-1, 1>>>> ],
      \* sites (2, 5) (5, 2) (6, 0) (4, 3)
      [ points |-> <<<<20, 50>>, <<50, 20>>, <<60, 0>>, <<40, 30>>>>,
        vertices |-> <<<<-85, -75>>, <<5, -15>>>>,
        regions |-> <<<<>>, <<-1, 0, 1>>, <<-1, 1, 0>>, <<-1, 1>>, <<-1, 0>>>>,
        point_region |-> <<4, 3, 2, 1>>,
        ridge_points |-> <<<<0, 2>>, <<0, 3>>, <<1, 2>>, <<1, 3>>, <<2, 3>>>>,
        ridge_vertices |-> <<<<-1, 0>>, <<-1, 0>>, <<-1, 1>>, <<-1, 1>>, <<0, 1>>>> ],
      \* sites (0, 0) (1, 1) (3, 3) (4, 5)
      [ points |-> <<<<0, 0>>, <<10, 10>>, <<30, 30>>, <<40, 50>>>>,
        vertices |-> <<<<-155, 165>>, <<-35, 75>>>>,
        regions |-> <<<<>>, <<-1, 0, 1>>, <<-1, 1>>, <<-1, 1, 0>>, <<-1, 0>>>>,
        point_region |-> <<4, 3, 2, 1>>,
        ridge_points |-> <<<<0, 1>>, <<0, 3>>, <<1, 2>>, <<1, 3>>, <<2, 3>>>>,
        ridge_vertices |-> <<<<-1, 0>>, <<-1, 0>>, <<-1, 1>>, <<0, 1>>, <<-1, 1>>>> ],
      \* sites (5, 3) (0, 5) (2, 5) (6, 0) (1, 5)
      [ points |-> <<<<50, 30>>, <<0, 50>>, <<20, 50>>, <<60, 0>>, <<10, 50>>>>,
        vertices |-> <<<<15, 10>>, <<10, 0>>, <<5, -5>>>>,
        regions |-> <<<<>>, <<-1, 2, 1, 0>>, <<-1, 2, 1>>, <<-1, 0>>, <<-1, 2>>, <<-1, 0, 1>>>>,
        point_region |-> <<5, 4, 3, 2, 1>>,
        ridge_points |-> <<<<0, 2>>, <<0, 3>>, <<0, 4>>, <<1, 3>>, <<1, 4>>, <<2, 4>>, <<3, 4>>>>,
        ridge_vertices |-> <<<<-1, 0>>, <<-1, 1>>, <<0, 1>>, <<-1, 2>>, <<-1, 2>>, <<-1, 0>>, <<1, 2>>>> ],
      \* sites (2, 1) (0, 1) (3, 1) (2, 2) (2, 0)
      [ points |-> <<<<20, 10>>, <<0, 10>>, <<30, 10>>, <<20, 20>>, <<20, 0>>>>,
        vertices |-> <<<<10, 15>>, <<10, 5>>, <<25, 15>>, <<25, 5>>>>,
        regions |-> <<<<>>, <<-1, 3, 1>>, <<-1, 0, 2>>, <<-1, 3, 2>>, <<-1, 1, 0>>, <<1, 3, 2, 0>>>>,
        point_region |-> <<5, 4, 3, 2, 1>>,
        ridge_points |-> <<<<0, 1>>, <<0, 2>>, <<0, 3>>, <<0, 4>>, <<1, 3>>, <<1, 4>>, <<2, 3>>, <<2, 4>>>>,
        ridge_vertices |-> <<<<0, 1>>, <<2, 3>>, <<0, 2>>, <<1, 3>>, <<-1, 0>>, <<-1, 1>>, <<-1, 2>>, <<-1, 3>>>> ],
      \* sites (3, 1) (2, 2) (5, 1) (1, 0) (2, 1)
      [ points |-> <<<<30, 10>>, <<20, 20>>, <<50, 10>>, <<10, 0>>, <<20, 10>>>>,
        vertices |-> <<<<40, 30>>, <<25, 15>>, <<40, -35>>, <<25, -5>>, <<5, 15>>>>,
        regions |-> <<<<>>, <<3, 1, 4>>, <<-1, 2, 3, 4>>, <<-1, 2, 0>>, <<-1, 4, 1, 0>>, <<3, 2, 0, 1>>>>,
        point_region |-> <<5, 4, 3, 2, 1>>,
        ridge_points |-> <<<<0, 1>>, <<0, 2>>, <<0, 3>>, <<0, 4>>, <<1, 2>>, <<1, 3>>, <<1, 4>>, <<2, 3>>, <<3, 4>>>>,
        ridge_vertices |-> <<<<0, 1>>, <<0, 2>>, <<2, 3>>, <<1, 3>>, <<-1, 0>>, <<-1, 4>>, <<1, 4>>, <<-1, 2>>, <<3, 4>>>> ],
      \* sites (2, 5) (5, 6) (4, 6) (6, 6) (0, 4)
      [ points |-> <<<<20, 50>>, <<50, 60>>, <<40, 60>>, <<60, 60>>, <<0, 40>>>>,
        vertices |-> <<<<45, 25>>, <<55, -5>>, <<75, -85>>>>,
        regions |-> <<<<>>, <<-1, 2>>, <<-1, 1, 2>>, <<-1, 0>>, <<-1, 0, 1>>, <<-1, 2, 1, 0>>>>,
        point_region |-> <<5, 4, 3, 2, 1>>,
        ridge_points |-> <<<<0, 1>>, <<0, 2>>, <<0, 3>>, <<0, 4>>, <<1, 2>>, <<1, 3>>, <<3, 4>>>>,
        ridge_vertices |-> <<<<0, 1>>, <<-1, 0>>, <<1, 2>>, <<-1, 2>>, <<-1, 0>>, <<-1, 1>>, <<-1, 2>>>> ],
      \* sites (2, 0) (0, 4) (3, 1) (2, 1) (2, 2)
      [ points |-> <<<<20, 0>>, <<0, 40>>, <<30, 10>>, <<20, 10>>, <<20, 20>>>>,
        vertices |-> <<<<-20, 5>>, <<25, 5>>, <<-5, 15>>, <<25, 15>>>>,
        regions |-> <<<<>>, <<-1, 2, 3>>, <<0, 1, 3, 2>>, <<-1, 1, 3>>, <<-1, 0, 2>>, <<-1, 1, 0>>>>,
        point_region |-> <<5, 4, 3, 2, 1>>,
        ridge_points |-> <<<<0, 1>>, <<0, 2>>, <<0, 3>>, <<1, 3>>, <<1, 4>>, <<2, 3>>, <<2, 4>>, <<3, 4>>>>,
        ridge_vertices |-> <<<<-1, 0>>, <<-1, 1>>, <<0, 1>>, <<0, 2>>, <<-1, 2>>, <<1, 3>>, <<-1, 3>>, <<2, 3>>>> ],
      \* sites (0, 0) (1, 0) (3, 2) (3, 1) (2, 1) (1, 1)
      [ points |-> <<<<0, 0>>, <<10, 0>>, <<30, 20>>, <<30, 10>>, <<20, 10>>, <<10, 10>>>>,
        vertices |-> <<<<5, 5>>, <<25, -5>>, <<15, 5>>, <<25, 15>>, <<15, 25>>>>,
        regions |-> <<<<>>, <<-1, 0, 2, 4>>, <<2, 1, 3, 4>>, <<-1, 1, 3>>, <<-1, 3, 4>>, <<-1, 1, 2, 0>>, <<-1, 0>>>>,
        point_region |-> <<6, 5, 4, 3, 2, 1>>,
        ridge_points |-> <<<<0, 1>>, <<0, 5>>, <<1, 3>>, <<1, 4>>, <<1, 5>>, <<2, 3>>, <<2, 4>>, <<2, 5>>, <<3, 4>>, <<4, 5>>>>,
        ridge_vertices |-> <<<<-1, 0>>, <<-1, 0>>, <<-1, 1>>, <<1, 2>>, <<0, 2>>, <<-1, 3>>, <<3, 4>>, <<-1, 4>>, <<1, 3>>, <<2, 4>>>> ],
      \* sites (5, 2) (2, 2) (1, 1) (2, 4) (2, 5) (3, 3)
      [ points |-> <<<<50, 20>>, <<20, 20>>, <<10, 10>>, <<20, 40>>, <<20, 50>>, <<30, 30>>>>,
        vertices |-> <<<<35, -5>>, <<35, 15>>, <<55, 55>>, <<0, 30>>, <<20, 30>>, <<-45, 45>>, <<35, 45>>>>,
        regions |-> <<<<>>, <<1, 2, 6, 4>>, <<-1, 5, 6, 2>>, <<3, 4, 6, 5>>, <<-1, 0, 3, 5>>, <<0, 1, 4, 3>>, <<-1, 1, 0, 2>>>>,
        point_region |-> <<6, 5, 4, 3, 2, 1>>,
        ridge_points |-> <<<<0, 1>>, <<0, 2>>, <<0, 4>>, <<0, 5>>, <<1, 2>>, <<1, 3>>, <<1, 5>>, <<2, 3>>, <<2, 4>>, <<3, 4>>, <<3, 5>>, <<4, 5>>>>,
        ridge_vertices |-> <<<<0, 1>>, <<-1, 0>>, <<-1, 2>>, <<1, 2>>, <<0, 3>>, <<3, 4>>, <<1, 4>>, <<3, 5>>, <<-1, 5>>, <<5, 6>>, <<4, 6>>, <<2, 6>>>> ],
      \* sites (0, 6) (2, 0) (1, 1) (1, 0) (1, 3) (0, 0)
      [ points |-> <<<<0, 60>>, <<20, 0>>, <<10, 10>>, <<10, 0>>, <<10, 30>>, <<0, 0>>>>,
        vertices |-> <<<<-40, 30>>, <<15, 5>>, <<30, 20>>, <<5, 5>>, <<-10, 20>>>>,
        regions |-> <<<<>>, <<-1, 3, 4, 0>>, <<-1, 4, 2, 0>>, <<-1, 1, 3>>, <<3, 1, 2, 4>>, <<-1, 2, 1>>, <<-1, 0>>>>,
        point_region |-> <<6, 5, 4, 3, 2, 1>>,
        ridge_points |-> <<<<0, 4>>, <<0, 5>>, <<1, 2>>, <<1, 3>>, <<1, 4>>, <<2, 3>>, <<2, 4>>, <<2, 5>>, <<3, 5>>, <<4, 5>>>>,
        ridge_vertices |-> <<<<-1, 0>>, <<-1, 0>>, <<1, 2>>, <<-1, 1>>, <<-1, 2>>, <<1, 3>>, <<2, 4>>, <<3, 4>>, <<-1, 3>>, <<0, 4>>>> ],
      \* sites (2, 0) (2, 1) (4, 3) (1, 0) (3, 2) (6, 5)
      [ points |-> <<<<20, 0>>, <<20, 10>>, <<40, 30>>, <<10, 0>>, <<30, 20>>, <<60, 50>>>>,
        vertices |-> <<<<15, 5>>, <<35, 5>>, <<75, -15>>, <<165, -75>>>>,
        regions |-> <<<<>>, <<-1, 3>>, <<-1, 1, 2>>, <<-1, 0>>, <<-1, 2, 3>>, <<-1, 0, 1>>, <<-1, 3, 2, 1, 0>>>>,
        point_region |-> <<6, 5, 4, 3, 2, 1>>,
        ridge_points |-> <<<<0, 1>>, <<0, 2>>, <<0, 3>>, <<0, 4>>, <<0, 5>>, <<1, 3>>, <<1, 4>>, <<2, 4>>, <<2, 5>>>>,
        ridge_vertices |-> <<<<0, 1>>, <<2, 3>>, <<-1, 0>>, <<1, 2>>, <<-1, 3>>, <<-1, 0>>, <<-1, 1>>, <<-1, 2>>, <<-1, 3>>>> ]
    }

\* vor.points.shape[1]
PointsShape1(v) == Len(v.points[1])

\* Diagrams of sites that are not planar (four and five sites in space).
NonPlanar ==
    { [ points |-> <<<<0, 0, 0>>, <<10, 0, 0>>, <<0, 10, 0>>, <<0, 0, 10>>>>,
        vertices |-> <<<<5, 5, 5>>>>,
        regions |-> <<<<>>, <<-1, 0>>, <<-1, 0>>, <<-1, 0>>, <<-1, 0>>>>,
        point_region |-> <<1, 2, 3, 4>>,
        ridge_points |-> <<<<0, 1>>, <<0, 2>>, <<0, 3>>, <<1, 2>>, <<1, 3>>, <<2, 3>>>>,
        ridge_vertices |-> <<<<-1, 0>>, <<-1, 0>>, <<-1, 0>>, <<-1, 0>>, <<-1, 0>>, <<-1, 0>>>> ],
      [ points |-> <<<<0, 0, 0>>, <<20, 0, 0>>, <<0, 20, 0>>, <<0, 0, 20>>>>,
        vertices |-> <<<<10, 10, 10>>>>,
        regions |-> <<<<>>, <<-1, 0>>, <<-1, 0>>, <<-1, 0>>, <<-1, 0>>>>,
        point_region |-> <<1, 2, 3, 4>>,
        ridge_points |-> <<<<0, 1>>, <<0, 2>>, <<0, 3>>, <<1, 2>>, <<1, 3>>, <<2, 3>>>>,
        ridge_vertices |-> <<<<-1, 0>>, <<-1, 0>>, <<-1, 0>>, <<-1, 0>>, <<-1, 0>>, <<-1, 0>>>> ] }

\* Degenerate diagrams a caller can hand to voronoi_finite_polygons_2d: a ridge
\* with both ends at infinity, over a vertex table with one vertex, with two
\* vertices, and with none.
Degenerate ==
    { [ points |-> <<<<0, 0>>, <<10, 0>>, <<10, 10>>>>,
        vertices |-> <<<<5, 5>>>>,
        regions |-> <<<<>>, <<-1, 0>>, <<-1, 0>>, <<-1, 0>>>>,
        point_region |-> <<3, 2, 1>>,
        ridge_points |-> <<<<0, 1>>, <<0, 2>>, <<1, 2>>>>,
        ridge_vertices |-> <<<<-1, -1>>, <<-1, 0>>, <<-1, 0>>>> ],
      [ points |-> <<<<10, 20>>, <<20, 10>>, <<30, 0>>, <<0, 10>>>>,
        vertices |-> <<<<10, 10>>, <<10, -10>>>>,
        regions |-> <<<<>>, <<-1, 1, 0>>, <<-1, 1>>, <<-1, 1, 0>>, <<-1, 0>>>>,
        point_region |-> <<4, 3, 2, 1>>,
        ridge_points |-> <<<<0, 1>>, <<0, 3>>, <<1, 2>>, <<1, 3>>, <<2, 3>>>>,
        ridge_vertices |-> <<<<-1, -1>>, <<-1, 0>>, <<-1, 1>>, <<0, 1>>, <<-1, 1>>>> ],
      [ points |-> <<<<0, 0>>, <<10, 0>>>>,
        vertices |-> <<>>,
        regions |-> <<<<-1>>, <<-1>>>>,
        point_region |-> <<0, 1>>,
        ridge_points |-> <<<<0, 1>>>>,
        ridge_vertices |-> <<<<-1, -1>>>> ] }

-----------------------------------------------------------------------------
(* voronoi_finite_polygons_2d *)

\* the coordinates of all points, flattened
Flat(ps) == UNION { {ps[i][1], ps[i][2]} : i \in 1 .. Len(ps) }

\* radius = vor.points.ptp().max() * 2: the range of the flattened coordinates, doubled
Radius(v) == (SetMax(Flat(v.points)) - SetMin(Flat(v.points))) * 2

\* all_ridges[p]: the ridges of site p as (p2, v1, v2), in the order of the zip
RECURSIVE RidgesFrom(_, _, _)
RidgesFrom(v, p, k) ==
    IF k > Len(v.ridge_points) THEN <<>>
    ELSE LET rp == v.ridge_points[k]
             rv == v.ridge_vertices[k]
             a == IF rp[1] = p THEN << <<rp[2], rv[1], rv[2]>> >> ELSE <<>>
             b == IF rp[2] = p THEN << <<rp[1], rv[1], rv[2]>> >> ELSE <<>>
         IN  a \o b \o RidgesFrom(v, p, k + 1)

AllRidges(v, p) == RidgesFrom(v, p, 1)

\* the ridge after "if v2 < 0: v1, v2 = v2, v1"
Swapped(rd) == IF rd[3] < 0 THEN <<rd[1], rd[3], rd[2]>> ELSE rd

\* the ridge has a missing endpoint: it is not skipped by "if v1 >= 0: continue"
IsInfinite(rd) == Swapped(rd)[2] < 0

\* np.linalg.norm(t), in thousandths
Norm(t) == ISqrt(10000 * Dot(t, t))

\* a wrong far point: pushed towards the centre of the sites
FarPointInward(v, p1, p2, v2) ==
    LET a == Item(v.points, p1)
        b == Item(v.points, p2)
        t == Vec(a, b)
        n == <<-t[2], t[1]>>
        cnt == Len(v.points)
        total == PointSum(v.points)
        m == <<cnt * (a[1] + b[1]) - 2 * total[1], cnt * (a[2] + b[2]) - 2 * total[2]>>
        s == -Sign(Dot(m, n))
        end == Item(v.vertices, v2)
    IN  << end[1] + s * RoundDiv(100 * n[1] * Radius(v), Norm(t)),
           end[2] + s * RoundDiv(100 * n[2] * Radius(v), Norm(t)) >>

\* far_point of the ridge between p1 and p2 whose known endpoint is v2
FarPoint(v, p1, p2, v2) ==
    LET a == Item(v.points, p1)
        b == Item(v.points, p2)
        t == Vec(a, b)
        n == <<-t[2], t[1]>>
        cnt == Len(v.points)
        total == PointSum(v.points)
        \* 2 * cnt * (midpoint - center)
        m == <<cnt * (a[1] + b[1]) - 2 * total[1], cnt * (a[2] + b[2]) - 2 * total[2]>>
        s == Sign(Dot(m, n))
        end == Item(v.vertices, v2)
    IN  << end[1] + s * RoundDiv(100 * n[1] * Radius(v), Norm(t)),
           end[2] + s * RoundDiv(100 * n[2] * Radius(v), Norm(t)) >>

\* a wrong filter: the region is kept with its -1
KeepAll(vertices) == vertices

\* new_region = [v for v in vertices if v >= 0]
FiniteOnly(vertices) == SelectSeq(vertices, LAMBDA x : x >= 0)

\* a wrong loop: it synthesizes a vertex for every ridge, finite or not
RECURSIVE CloseEveryRidge(_, _, _, _, _)
CloseEveryRidge(v, p1, rs, new_region, verts) ==
    IF rs = <<>> THEN [region |-> new_region, vertices |-> verts]
    ELSE LET rd == Swapped(Head(rs))
         IN  CloseEveryRidge(v, p1, Tail(rs),
                             Append(new_region, Len(verts)),
                             Append(verts, FarPoint(v, p1, rd[1], rd[3])))

\* the loop over the ridges of p1: a missing endpoint is appended to the
\* vertex table and its index to the region
RECURSIVE CloseRidges(_, _, _, _, _)
CloseRidges(v, p1, rs, new_region, verts) ==
    IF rs = <<>> THEN [region |-> new_region, vertices |-> verts]
    ELSE LET rd == Swapped(Head(rs))
         IN  IF rd[2] >= 0
             THEN CloseRidges(v, p1, Tail(rs), new_region, verts)
             ELSE CloseRidges(v, p1, Tail(rs),
                              Append(new_region, Len(verts)),
                              Append(verts, FarPoint(v, p1, rd[1], rd[3])))

\* np.arctan2 orders directions from just above -pi up to pi
AngleClass(d) ==
    IF d[2] < 0 THEN 0
    ELSE IF d[2] = 0 /\ d[1] >= 0 THEN 1
    ELSE IF d[2] > 0 THEN 2
    ELSE 3

AngleLess(u, w) ==
    \/ AngleClass(u) < AngleClass(w)
    \/ /\ AngleClass(u) = AngleClass(w)
       /\ AngleClass(u) \in {0, 2}
       /\ Cross(u, w) > 0

\* the direction of vertex i from the centroid c = vs.mean(axis=0), times len(vs)
FromCentroid(region, verts, i) ==
    LET total == PointSum([k \in 1 .. Len(region) |-> Item(verts, region[k])])
        p == Item(verts, i)
    IN  <<Len(region) * p[1] - total[1], Len(region) * p[2] - total[2]>>

RECURSIVE InsertByAngle(_, _, _, _)
InsertByAngle(sorted, i, region, verts) ==
    IF sorted = <<>> THEN <<i>>
    ELSE IF AngleLess(FromCentroid(region, verts, i), FromCentroid(region, verts, Head(sorted)))
         THEN <<i>> \o sorted
         ELSE <<Head(sorted)>> \o InsertByAngle(Tail(sorted), i, region, verts)

RECURSIVE SortFrom(_, _, _)
SortFrom(k, region, verts) ==
    IF k = 0 THEN <<>>
    ELSE InsertByAngle(SortFrom(k - 1, region, verts), region[k], region, verts)

\* np.array(new_region)[np.argsort(angles)]
SortCounterclockwise(region, verts) == SortFrom(Len(region), region, verts)

-----------------------------------------------------------------------------
(* save_2d_area: the bounding polygon, shapely's predicates, the table *)

Xs(ps) == { ps[i][1] : i \in 1 .. Len(ps) }
Ys(ps) == { ps[i][2] : i \in 1 .. Len(ps) }

\* a wrong rectangle: the extremes of the Voronoi vertices
BoundsOfVertices(v) ==
    [ xmin |-> SetMin(Xs(v.vertices)), ymin |-> SetMin(Ys(v.vertices)),
      xmax |-> SetMax(Xs(v.vertices)), ymax |-> SetMax(Ys(v.vertices)) ]

\* the rectangle of vor.min_bound and vor.max_bound, the extremes of the sites
Bounds(v) ==
    [ xmin |-> SetMin(Xs(v.points)), ymin |-> SetMin(Ys(v.points)),
      xmax |-> SetMax(Xs(v.points)), ymax |-> SetMax(Ys(v.points)) ]

\* v = vertices[r]
Coordinates(region, verts) == [k \in 1 .. Len(region) |-> Item(verts, region[k])]

\* edge k of the ring of a polygon, closed from its last point to its first
EdgeFrom(poly, k) == poly[k]
EdgeTo(poly, k) == poly[(k % Len(poly)) + 1]

\* p lies on the segment from a to b
OnSegment(a, b, p) ==
    /\ Cross(Vec(a, b), Vec(a, p)) = 0
    /\ Min2(a[1], b[1]) <= p[1] /\ p[1] <= Max2(a[1], b[1])
    /\ Min2(a[2], b[2]) <= p[2] /\ p[2] <= Max2(a[2], b[2])

\* the ray from p towards +x crosses the segment from a to b
RayCrosses(a, b, p) ==
    /\ (a[2] > p[2]) # (b[2] > p[2])
    /\ IF b[2] > a[2]
       THEN (p[2] - a[2]) * (b[1] - a[1]) > (p[1] - a[1]) * (b[2] - a[2])
       ELSE (p[2] - a[2]) * (b[1] - a[1]) < (p[1] - a[1]) * (b[2] - a[2])

\* polygon.contains(Point(p)): p is in the interior, not on the boundary
Contains(poly, p) ==
    /\ Len(poly) >= 3
    /\ \A k \in 1 .. Len(poly) : ~OnSegment(EdgeFrom(poly, k), EdgeTo(poly, k), p)
    /\ Cardinality({k \in 1 .. Len(poly) :
                      RayCrosses(EdgeFrom(poly, k), EdgeTo(poly, k), p)}) % 2 = 1

\* A side of the bounding polygon as a half plane: dir * (p[axis] - at) >= 0
InsideHalf(h, p) == h.dir * (p[h.axis] - h.at) >= 0

\* where the segment from a to b meets the line of the half plane
MeetHalf(h, a, b) ==
    IF h.axis = 1
    THEN <<h.at, a[2] + RoundDiv((b[2] - a[2]) * (h.at - a[1]), b[1] - a[1])>>
    ELSE <<a[1] + RoundDiv((b[1] - a[1]) * (h.at - a[2]), b[2] - a[2]), h.at>>

\* the part of a ring inside one half plane
RECURSIVE ClipHalfFrom(_, _, _)
ClipHalfFrom(poly, h, k) ==
    IF k > Len(poly) THEN <<>>
    ELSE LET a == poly[IF k = 1 THEN Len(poly) ELSE k - 1]
             b == poly[k]
             here ==
                 IF InsideHalf(h, b)
                 THEN IF InsideHalf(h, a) THEN <<b>> ELSE <<MeetHalf(h, a, b), b>>
                 ELSE IF InsideHalf(h, a) THEN <<MeetHalf(h, a, b)>> ELSE <<>>
         IN  here \o ClipHalfFrom(poly, h, k + 1)

ClipHalf(poly, h) == IF poly = <<>> THEN <<>> ELSE ClipHalfFrom(poly, h, 1)

\* polygon_onj.intersection(ploy_all): the ring of the part of the polygon
\* inside the rectangle, <<>> when they do not meet
Intersection(poly, box) ==
    ClipHalf(ClipHalf(ClipHalf(ClipHalf(poly,
        [axis |-> 1, at |-> box.xmin, dir |-> 1]),
        [axis |-> 1, at |-> box.xmax, dir |-> -1]),
        [axis |-> 2, at |-> box.ymin, dir |-> 1]),
        [axis |-> 2, at |-> box.ymax, dir |-> -1])

\* twice the signed area of a ring
Area2(ring) ==
    SumSeq([k \in 1 .. Len(ring) |-> Cross(EdgeFrom(ring, k), EdgeTo(ring, k))])

\* the intersection is a polygon: it has an exterior ring with coordinates
IsPolygon(ring) == ring # <<>> /\ Area2(ring) # 0

\* polygon_clip.exterior.coords: the ring, closed by repeating its first point
ExteriorCoords(ring) == IF ring = <<>> THEN <<>> ELSE Append(ring, ring[1])

\* np.argmax of a list of booleans: the first index of the largest value, 0 when all are False
RECURSIVE ArgmaxFrom(_, _, _)
ArgmaxFrom(flags, k, best) ==
    IF k > Len(flags) THEN best - 1
    ELSE IF flags[k] /\ ~flags[best] THEN ArgmaxFrom(flags, k + 1, k)
         ELSE ArgmaxFrom(flags, k + 1, best)

\* a wrong argmax: the last index of the largest value
ArgmaxLast(flags) ==
    IF \E k \in 1 .. Len(flags) : flags[k]
    THEN SetMax({k \in 1 .. Len(flags) : flags[k]}) - 1
    ELSE Len(flags) - 1

Argmax(flags) == ArgmaxFrom(flags, 2, 1)

\* unit = np.argmax([polygon_onj.contains(Point(x)) for x in centers_2d[['X', 'Y']].values])
UnitOf(poly, sites) == Argmax([i \in 1 .. Len(sites) |-> Contains(poly, sites[i])])

\* Text.  A string is the sequence of its characters.
Digits == <<"0", "1", "2", "3", "4", "5", "6", "7", "8", "9">>

\* the decimal digits of a natural number
RECURSIVE DigitsOf(_)
DigitsOf(n) ==
    IF n < 10 THEN <<Digits[n + 1]>>
    ELSE DigitsOf(n \div 10) \o <<Digits[(n % 10) + 1]>>

\* str(x_) of a coordinate: sign, whole part, point, tenths ("1.5", "-0.5", "2.0")
Str(x) ==
    (IF x < 0 THEN <<"-">> ELSE <<>>)
        \o DigitsOf(Abs(x) \div 10) \o <<".">> \o <<Digits[(Abs(x) % 10) + 1]>>

\* ",".join(items)
RECURSIVE Join(_)
Join(items) ==
    IF items = <<>> THEN <<>>
    ELSE IF Len(items) = 1 THEN items[1]
    ELSE items[1] \o <<",">> \o Join(Tail(items))

\* src/app/figures_generator.py, get_phonemes_figure:
\* x = [float(x) for x in row['X'].split(",")]

\* s.split(","): the pieces between the commas; one empty piece for an empty string
RECURSIVE SplitFrom(_, _)
SplitFrom(s, piece) ==
    IF s = <<>> THEN <<piece>>
    ELSE IF Head(s) = "," THEN <<piece>> \o SplitFrom(Tail(s), <<>>)
    ELSE SplitFrom(Tail(s), Append(piece, Head(s)))

Split(s) == SplitFrom(s, <<>>)

DigitValue(c) == CHOOSE d \in 0 .. 9 : Digits[d + 1] = c

IsDigit(c) == \E d \in 0 .. 9 : Digits[d + 1] = c

RECURSIVE Whole(_)
Whole(ds) ==
    IF ds = <<>> THEN 0
    ELSE Whole(SubSeq(ds, 1, Len(ds) - 1)) * 10 + DigitValue(ds[Len(ds)])

\* the text without its sign
Unsigned(piece) == IF piece # <<>> /\ piece[1] = "-" THEN Tail(piece) ELSE piece

\* float(piece) does not raise ValueError: digits, a point, one digit for the tenths
IsFloat(piece) ==
    LET body == Unsigned(piece)
    IN  /\ Len(body) >= 3
        /\ body[Len(body) - 1] = "."
        /\ \A k \in 1 .. Len(body) : k # Len(body) - 1 => IsDigit(body[k])

\* float(piece), in tenths
Float(piece) ==
    LET body == Unsigned(piece)
        value == Whole(SubSeq(body, 1, Len(body) - 2)) * 10 + DigitValue(body[Len(body)])
    IN  IF piece[1] = "-" THEN -value ELSE value

\* res.loc[unit, 'X'] = ...; res.loc[unit, 'Y'] = ...: the row labelled unit is
\* replaced where it is, a new label is appended
RECURSIVE SetRow(_, _)
SetRow(table, row) ==
    IF table = <<>> THEN <<row>>
    ELSE IF Head(table).unit = row.unit THEN <<row>> \o Tail(table)
         ELSE <<Head(table)>> \o SetRow(Tail(table), row)

RECURSIVE InsertRow(_, _)
InsertRow(sorted, row) ==
    IF sorted = <<>> THEN <<row>>
    ELSE IF row.unit < Head(sorted).unit THEN <<row>> \o sorted
         ELSE <<Head(sorted)>> \o InsertRow(Tail(sorted), row)

\* a wrong sort: the rows are left in the order they were added
Unsorted(table) == table

\* res.sort_index()
RECURSIVE SortIndex(_)
SortIndex(table) ==
    IF table = <<>> THEN <<>>
    ELSE InsertRow(SortIndex(SubSeq(table, 1, Len(table) - 1)), table[Len(table)])

-----------------------------------------------------------------------------
(* State *)

VARIABLES
    entry,          \* the function that was called
    centers_2d,     \* save_2d_area: the X, Y of the centers of the vocabulary size
    vor,            \* the diagram
    pc,             \* where the call is
    error,          \* the exception that ended the call, "none" when none did
    new_regions,    \* voronoi_finite_polygons_2d: the regions built so far
    new_vertices,   \* voronoi_finite_polygons_2d: the vertex table, with the appended far points
    r,              \* save_2d_area: how many regions the loop has handled
    polygon_onj,    \* save_2d_area: the coordinates of the polygon of the last region
    polygon_clip,   \* save_2d_area: the ring of its intersection with the bounding polygon
    unit,           \* save_2d_area: the unit found for the last region
    res,            \* save_2d_area: the data frame, its rows in the order they were added
    saved,          \* the file assets/2d_area/{dense_name}_{vocab_size}.csv
    list_,          \* update_items_list: the list it is called on
    max_len,        \* update_items_list: its max_len
    offered,        \* the items update_items_list was called with, in order
    dataset,        \* save_units_audio: the encoded units of each file
    file_index,     \* save_units_audio: the file the loop is at
    i_,             \* save_units_audio: the position in units[1:] the inner loop is at
    unit_item,      \* save_units_audio: the item of the run being counted
    units_map,      \* save_units_audio: the items kept for each unit
    wav,            \* the files assets/audio/.../{unit}.wav
    click_data,     \* get_unit_and_vocab: the clickData of the figure
    opt_units,      \* get_unit_and_vocab: the vocabulary sizes selected
    result          \* get_unit_and_vocab: the pair returned

\* the state of src/preprocessing/voronoi.py, of
\* src/preprocessing/units_to_audio.py and of src/main.py
audio_vars == <<list_, max_len, offered, dataset, file_index, i_, unit_item, units_map, wav>>

click_vars == <<click_data, opt_units, result>>

vars == <<entry, centers_2d, vor, pc, error, new_regions, new_vertices, r,
          polygon_onj, polygon_clip, unit, res, saved, audio_vars, click_vars>>

\* UnitItem(): the dataclass's defaults
DefaultItem == [unit |-> -1, file_index |-> 0, length |-> 0, index_start |-> 0, audio |-> <<>>]

\* no call of units_to_audio.py or of main.py is under way
NoAudio ==
    /\ list_ = <<>>
    /\ max_len = 0
    /\ offered = <<>>
    /\ dataset = <<>>
    /\ file_index = 0
    /\ i_ = 0
    /\ unit_item = DefaultItem
    /\ units_map = <<>>
    /\ wav = <<>>

\* None, and a value that is not None
None == <<>>
Some(x) == <<x>>

NoClick ==
    /\ click_data = None
    /\ opt_units = <<>>
    /\ result = <<None, None>>

NoFile == [written |-> FALSE, rows |-> <<>>]

NoDiagram ==
    [ points |-> <<>>, vertices |-> <<>>, regions |-> <<>>, point_region |-> <<>>,
      ridge_points |-> <<>>, ridge_vertices |-> <<>> ]

\* The adapter lists the vertices of a bounded region in ring order, in
\* either sense and from any vertex of the ring: the same diagram with its
\* bounded regions listed the other way round
Reversed(s) == [k \in 1 .. Len(s) |-> s[Len(s) + 1 - k]]

ListedClockwise(d) ==
    [d EXCEPT !.regions =
        [k \in 1 .. Len(d.regions) |->
            IF \A j \in 1 .. Len(d.regions[k]) : d.regions[k][j] >= 0
            THEN Reversed(d.regions[k])
            ELSE d.regions[k]]]

\* the batches of at most MaxSites sites, their bounded regions listed in either sense
Inputs ==
    {d \in Batches : Len(d.points) <= MaxSites}
        \cup {ListedClockwise(d) : d \in {b \in Batches : Len(b.points) <= MaxSites}}

Locals ==
    /\ error = "none"
    /\ new_regions = <<>>
    /\ new_vertices = <<>>
    /\ r = 0
    /\ polygon_onj = <<>>
    /\ polygon_clip = <<>>
    /\ unit = 0
    /\ res = <<>>
    /\ saved = NoFile

\* batches of a single center (a vocabulary of one unit)
Single == { << <<0, 0>> >>, << <<30, 40>> >> }

\* save_2d_area has read the centers of the vocabulary size, or
\* voronoi_finite_polygons_2d is called on a diagram by itself
Init ==
    /\ \/ /\ entry = "save_2d_area"
          /\ centers_2d \in {d.points : d \in Inputs} \cup Single
          /\ vor = NoDiagram
          /\ pc = "voronoi"
       \/ /\ entry = "voronoi_finite_polygons_2d"
          /\ vor \in Inputs \cup NonPlanar \cup Degenerate
          /\ centers_2d = <<>>
          /\ pc = "call"
    /\ Locals
    /\ NoAudio
    /\ NoClick

\* vor = Voronoi(centers_2d[['X', 'Y']].values)
BuildDiagram ==
    /\ pc = "voronoi"
    /\ \E d \in Inputs : d.points = centers_2d /\ vor' = d
    /\ pc' = "call"
    /\ UNCHANGED <<audio_vars, click_vars, entry, centers_2d, error, new_regions, new_vertices, r,
                   polygon_onj, polygon_clip, unit, res, saved>>

\* Voronoi() cannot build an initial simplex from fewer than three centers
\* and raises QhullError
DiagramRaises ==
    /\ pc = "voronoi"
    /\ Len(centers_2d) < 3
    /\ pc' = "raised"
    /\ error' = "QhullError"
    /\ UNCHANGED <<audio_vars, click_vars, entry, centers_2d, vor, new_regions, new_vertices, r,
                   polygon_onj, polygon_clip, unit, res, saved>>

\* a wrong test: only a diagram of fewer than two dimensions is refused
RequiresAtLeastPlanar(v) == PointsShape1(v) < 2

\* if vor.points.shape[1] != 2: raise ValueError("Requires 2D input")
RequiresPlanar(v) == PointsShape1(v) # 2

RaiseNotPlanar ==
    /\ pc = "call"
    /\ RequiresPlanar(vor)
    /\ pc' = "raised"
    /\ error' = "ValueError"
    /\ UNCHANGED <<audio_vars, click_vars, entry, centers_2d, vor, new_regions, new_vertices, r,
                   polygon_onj, polygon_clip, unit, res, saved>>

\* new_regions = []; new_vertices = vor.vertices.tolist()
Begin ==
    /\ pc = "call"
    /\ ~RequiresPlanar(vor)
    /\ new_regions' = <<>>
    /\ new_vertices' = vor.vertices
    /\ pc' = "reconstruct"
    /\ UNCHANGED <<audio_vars, click_vars,
                   entry, centers_2d, vor, error, r, polygon_onj, polygon_clip,
                   unit, res, saved>>

\* the site the loop "for p1, region in enumerate(vor.point_region)" is at
P1 == Len(new_regions)

\* vertices = vor.regions[region]
RawRegion(v, p) == Item(v.regions, Item(v.point_region, p))

\* all([v >= 0 for v in vertices])
IsFinite(vertices) == \A k \in 1 .. Len(vertices) : vertices[k] >= 0

\* a wrong copy: the finite region is appended back to front
CopyFiniteRegionReversed ==
    /\ pc = "reconstruct"
    /\ P1 < Len(vor.point_region)
    /\ IsFinite(RawRegion(vor, P1))
    /\ new_regions' = Append(new_regions,
           [k \in 1 .. Len(RawRegion(vor, P1)) |->
               RawRegion(vor, P1)[Len(RawRegion(vor, P1)) + 1 - k]])
    /\ UNCHANGED <<audio_vars, click_vars,
                   entry, centers_2d, vor, pc, error, new_vertices, r, polygon_onj,
                   polygon_clip, unit, res, saved>>

\* the finite region is appended as it is
CopyFiniteRegion ==
    /\ pc = "reconstruct"
    /\ P1 < Len(vor.point_region)
    /\ IsFinite(RawRegion(vor, P1))
    /\ new_regions' = Append(new_regions, RawRegion(vor, P1))
    /\ UNCHANGED <<audio_vars, click_vars,
                   entry, centers_2d, vor, pc, error, new_vertices, r, polygon_onj,
                   polygon_clip, unit, res, saved>>

\* a ridge of p whose known endpoint is not in the vertex table: vor.vertices[v2] raises
MissingEndpoint(v, p) ==
    \E k \in 1 .. Len(AllRidges(v, p)) :
        /\ IsInfinite(AllRidges(v, p)[k])
        /\ ~InRange(v.vertices, Swapped(AllRidges(v, p)[k])[3])

\* a wrong table: every region is closed over the adapter's vertices, and
\* the far points of the regions closed before it are dropped
ReconstructedFromOriginal(v, p, verts) ==
    LET closed == CloseRidges(v, p, AllRidges(v, p), FiniteOnly(RawRegion(v, p)), v.vertices)
    IN  [ region |-> SortCounterclockwise(closed.region, closed.vertices),
          vertices |-> closed.vertices ]

\* the region of p1 rebuilt: its finite vertices, then one far point for each
\* ridge with a missing endpoint, sorted counterclockwise
Reconstructed(v, p, verts) ==
    LET closed == CloseRidges(v, p, AllRidges(v, p), FiniteOnly(RawRegion(v, p)), verts)
    IN  [ region |-> SortCounterclockwise(closed.region, closed.vertices),
          vertices |-> closed.vertices ]

ReconstructRegion ==
    /\ pc = "reconstruct"
    /\ P1 < Len(vor.point_region)
    /\ ~IsFinite(RawRegion(vor, P1))
    /\ AllRidges(vor, P1) # <<>>
    /\ ~MissingEndpoint(vor, P1)
    /\ LET built == Reconstructed(vor, P1, new_vertices)
       IN  /\ new_regions' = Append(new_regions, built.region)
           /\ new_vertices' = built.vertices
    /\ UNCHANGED <<audio_vars, click_vars,
                   entry, centers_2d, vor, pc, error, r, polygon_onj, polygon_clip,
                   unit, res, saved>>

\* all_ridges[p1] raises KeyError for a site without ridges, vor.vertices[v2]
\* raises IndexError for an endpoint that is not in the table
ReconstructRaises ==
    /\ pc = "reconstruct"
    /\ P1 < Len(vor.point_region)
    /\ ~IsFinite(RawRegion(vor, P1))
    /\ \/ AllRidges(vor, P1) = <<>> /\ error' = "KeyError"
       \/ AllRidges(vor, P1) # <<>> /\ MissingEndpoint(vor, P1) /\ error' = "IndexError"
    /\ pc' = "raised"
    /\ UNCHANGED <<audio_vars, click_vars,
                   entry, centers_2d, vor, new_regions, new_vertices, r, polygon_onj,
                   polygon_clip, unit, res, saved>>

\* return new_regions, np.asarray(new_vertices); save_2d_area goes on to its loop
Return ==
    /\ pc = "reconstruct"
    /\ P1 = Len(vor.point_region)
    /\ pc' = IF entry = "save_2d_area" THEN "loop" ELSE "returned"
    /\ UNCHANGED <<audio_vars, click_vars,
                   entry, centers_2d, vor, error, new_regions, new_vertices, r,
                   polygon_onj, polygon_clip, unit, res, saved>>

\* a wrong polygon: the region after clipping to the bounding polygon
ClippedPolygon ==
    Intersection(Coordinates(Item(new_regions, r), new_vertices), Bounds(vor))

\* the polygon of the region the loop "for r in regions" is at, before clipping
NextPolygon == Coordinates(Item(new_regions, r), new_vertices)

\* its intersection with the bounding polygon
NextClip == Intersection(NextPolygon, Bounds(vor))

\* x, y = polygon_clip.exterior.coords.xy
ExteriorX(ring) == [k \in 1 .. Len(ExteriorCoords(ring)) |-> ExteriorCoords(ring)[k][1]]
ExteriorY(ring) == [k \in 1 .. Len(ExteriorCoords(ring)) |-> ExteriorCoords(ring)[k][2]]

\* the row of a unit: X = ",".join([str(x_) for x_ in x]), Y likewise
Row(u, ring) ==
    [ unit |-> u,
      X |-> Join([k \in 1 .. Len(ExteriorX(ring)) |-> Str(ExteriorX(ring)[k])]),
      Y |-> Join([k \in 1 .. Len(ExteriorY(ring)) |-> Str(ExteriorY(ring)[k])]) ]

\* one pass of the loop: clip, read the exterior, find the unit, store the row
Store(ring) ==
    /\ polygon_onj' = NextPolygon
    /\ polygon_clip' = ring
    /\ unit' = UnitOf(NextPolygon, centers_2d)
    /\ res' = SetRow(res, Row(UnitOf(NextPolygon, centers_2d), ring))
    /\ r' = r + 1
    /\ UNCHANGED <<audio_vars, click_vars,
                   entry, centers_2d, vor, pc, error, new_regions, new_vertices, saved>>

StoreRegion ==
    /\ pc = "loop"
    /\ r < Len(new_regions)
    /\ IsPolygon(NextClip)
    /\ Store(NextClip)

\* the intersection is empty and the build gives an empty polygon, whose
\* exterior has no coordinates: the row is stored with empty X and Y
StoreEmptyRegion ==
    /\ pc = "loop"
    /\ r < Len(new_regions)
    /\ NextClip = <<>>
    /\ Store(<<>>)

\* the intersection is not a polygon (an empty collection in other builds, or
\* a point or a segment): polygon_clip.exterior raises AttributeError
ExteriorRaises ==
    /\ pc = "loop"
    /\ r < Len(new_regions)
    /\ ~IsPolygon(NextClip)
    /\ polygon_onj' = NextPolygon
    /\ polygon_clip' = NextClip
    /\ pc' = "raised"
    /\ error' = "AttributeError"
    /\ UNCHANGED <<audio_vars, click_vars,
                   entry, centers_2d, vor, new_regions, new_vertices, r, unit, res, saved>>

\* res = res.sort_index(); res.to_csv(...)
SortAndSave ==
    /\ pc = "loop"
    /\ r = Len(new_regions)
    /\ res' = SortIndex(res)
    /\ saved' = [written |-> TRUE, rows |-> SortIndex(res)]
    /\ pc' = "done"
    /\ UNCHANGED <<audio_vars, click_vars,
                   entry, centers_2d, vor, error, new_regions, new_vertices, r,
                   polygon_onj, polygon_clip, unit>>

Next ==
    \/ BuildDiagram
    \/ DiagramRaises
    \/ RaiseNotPlanar
    \/ Begin
    \/ CopyFiniteRegion
    \/ ReconstructRegion
    \/ ReconstructRaises
    \/ Return
    \/ StoreRegion
    \/ StoreEmptyRegion
    \/ ExteriorRaises
    \/ SortAndSave

Spec == Init /\ [][Next]_vars


-----------------------------------------------------------------------------
(* The assignment of a unit (line 117) by itself, on polygons and site     *)
(* lists drawn from a grid: several sites may lie in one polygon.          *)

GridSites == { <<10 * i, 10 * j>> : i \in 0 .. GridMax, j \in 0 .. GridMax }

SiteLists == UNION { [1 .. n -> GridSites] : n \in 1 .. MaxOffered }

Polygons ==
    { << <<-5, -5>>, <<35, -5>>, <<-5, 35>> >>,
      << <<5, 5>>, <<15, 35>>, <<35, 15>> >>,
      << <<5, -5>>, <<25, -5>>, <<25, 25>>, <<5, 25>> >>,
      << <<-5, 15>>, <<15, -5>>, <<35, 15>>, <<15, 35>> >>,
      << <<100, 100>>, <<120, 100>>, <<100, 120>> >> }

InitAssign ==
    /\ entry = "save_2d_area"
    /\ vor = NoDiagram
    /\ centers_2d \in SiteLists
    /\ polygon_onj \in Polygons
    /\ pc = "assign"
    /\ error = "none"
    /\ new_regions = <<>>
    /\ new_vertices = <<>>
    /\ r = 0
    /\ polygon_clip = <<>>
    /\ unit = 0
    /\ res = <<>>
    /\ saved = NoFile
    /\ NoAudio
    /\ NoClick

Assign ==
    /\ pc = "assign"
    /\ unit' = UnitOf(polygon_onj, centers_2d)
    /\ pc' = "assigned"
    /\ UNCHANGED <<audio_vars, click_vars,
                   entry, centers_2d, vor, error, new_regions, new_vertices, r,
                   polygon_onj, polygon_clip, res, saved>>

SpecAssign == InitAssign /\ [][Assign]_vars

-----------------------------------------------------------------------------
(* Properties *)

\* the sites (0-based) that pass the point-in-polygon test of a polygon
Passing(poly) == { i \in Indices(centers_2d) : Contains(poly, Item(centers_2d, i)) }

\* the loop of save_2d_area is about to handle a region
AtRegion == pc = "loop" /\ r < Len(new_regions)

\* C1: after save_2d_area completes for n sites, the table has exactly n rows,
\* one for every site index 0..n-1, each holding a polygon.
C1_OneRowPerSite ==
    saved.written =>
        /\ Len(saved.rows) = Len(centers_2d)
        /\ \A k \in 1 .. Len(saved.rows) :
              saved.rows[k].unit = k - 1 /\ saved.rows[k].X # <<>>

\* C2: the owner found for the i-th region is site i, and the row of unit i
\* holds the clipped polygon of that region.
C2_OwnerIsOwnSite ==
    (entry = "save_2d_area" /\ pc \in {"loop", "done"} /\ r > 0) =>
        /\ unit = r - 1
        /\ \E k \in 1 .. Len(res) : res[k] = Row(r - 1, polygon_clip)

\* C3: when no site lies inside the polygon of a region, the pass of the loop
\* fails: the call is ended by an exception and no row is written.
C3_UnassignedRegionFails ==
    [][(AtRegion /\ Passing(NextPolygon) = {}) => (pc' = "raised" /\ res' = res)]_vars

\* C4: the unit chosen for a polygon is the lowest site index that passes the
\* point-in-polygon test, whenever some site passes it.
C4_LowestPassingIndex ==
    (pc = "assigned" /\ Passing(polygon_onj) # {}) =>
        unit = SetMin(Passing(polygon_onj))

\* the squared distance, times Len(poly)^2, of a site from the centroid of the vertices
FromCentroid2(poly, p) ==
    LET d == <<Len(poly) * p[1] - PointSum(poly)[1], Len(poly) * p[2] - PointSum(poly)[2]>>
    IN  Dot(d, d)

\* several sites pass the test and the chosen one is not the nearest to the centroid
C4_SeveralPassFartherWins ==
    /\ pc = "assigned"
    /\ Cardinality(Passing(polygon_onj)) >= 2
    /\ unit \in Passing(polygon_onj)
    /\ \E j \in Passing(polygon_onj) :
          FromCentroid2(polygon_onj, Item(centers_2d, j))
              < FromCentroid2(polygon_onj, Item(centers_2d, unit))

\* region k (0-based) of the batch was handled successfully: its polygon
\* holds a site and its intersection with the bounding polygon is a polygon
Succeeded(k) ==
    LET poly == Coordinates(Item(new_regions, k), new_vertices)
    IN  Passing(poly) # {} /\ IsPolygon(Intersection(poly, Bounds(vor)))

\* C5: the file is written only when every region of the batch was handled
\* successfully, and never for a call that an exception ended.
C5_NothingPersistedOnFailure ==
    /\ saved.written => \A k \in Indices(new_regions) : Succeeded(k)
    /\ error # "none" => ~saved.written

\* C6: when the intersection of a region's polygon with the bounding polygon
\* is empty, the batch fails: no row is written for the region.
C6_EmptyClipFails ==
    [][(AtRegion /\ NextClip = <<>>) => (pc' = "raised" /\ res' = res)]_vars

\* a ridge of site p with both endpoints at infinity
BothEndsMissing(v, p) ==
    \E k \in 1 .. Len(AllRidges(v, p)) :
        AllRidges(v, p)[k][2] = -1 /\ AllRidges(v, p)[k][3] = -1

\* the loop of voronoi_finite_polygons_2d is about to rebuild an unbounded region
AtUnbounded ==
    pc = "reconstruct" /\ P1 < Len(vor.point_region) /\ ~IsFinite(RawRegion(vor, P1))

\* C7: when a ridge of the unbounded site being rebuilt has both endpoints -1,
\* the call fails and no vertex is synthesized.
C7_DoublyUnboundedRidgeFails ==
    [][(AtUnbounded /\ BothEndsMissing(vor, P1)) =>
          (pc' = "raised" /\ new_vertices' = new_vertices /\ new_regions' = new_regions)]_vars

\* C8: on a diagram whose points are not 2-dimensional the call raises before
\* any region or vertex is produced, and the diagram is left as it was.
C8_NotPlanarRaisesFirst ==
    [][(pc = "call" /\ PointsShape1(vor) # 2) =>
          /\ pc' = "raised" /\ error' = "ValueError"
          /\ new_regions' = <<>> /\ new_vertices' = <<>>
          /\ vor' = vor]_vars

C8_RaisedOnSpatialDiagram ==
    pc = "raised" /\ error = "ValueError" /\ PointsShape1(vor) = 3 /\ new_regions = <<>>

\* C9: every index of every region built by voronoi_finite_polygons_2d, copied
\* or rebuilt, is a non-negative index into the vertex table built with it.
C9_NoSentinelInRegions ==
    \A k \in 1 .. Len(new_regions) : \A j \in 1 .. Len(new_regions[k]) :
        new_regions[k][j] >= 0 /\ new_regions[k][j] < Len(new_vertices)

C9_CopiedAndRebuiltReturned ==
    /\ pc \in {"returned", "loop"}
    /\ \E p \in Indices(vor.point_region) : IsFinite(RawRegion(vor, p))
    /\ \E p \in Indices(vor.point_region) :
          /\ ~IsFinite(RawRegion(vor, p))
          /\ Len(Item(new_regions, p)) > Len(FiniteOnly(RawRegion(vor, p)))
    /\ Len(new_vertices) > Len(vor.vertices)

\* the coordinates a stored string lists, none for the empty string
Listed(s) == IF s = <<>> THEN <<>> ELSE [k \in 1 .. Len(Split(s)) |-> Float(Split(s)[k])]

\* C10: every coordinate of every stored polygon lies in the rectangle
\* [min site X, max site X] x [min site Y, max site Y].
C10_RowsInsideSiteBox ==
    \A k \in 1 .. Len(res) : \A j \in 1 .. Len(Listed(res[k].X)) :
        /\ SetMin(Xs(centers_2d)) <= Listed(res[k].X)[j]
        /\ Listed(res[k].X)[j] <= SetMax(Xs(centers_2d))
        /\ SetMin(Ys(centers_2d)) <= Listed(res[k].Y)[j]
        /\ Listed(res[k].Y)[j] <= SetMax(Ys(centers_2d))

\* a polygon with a synthesized vertex outside the rectangle was clipped and stored
C10_ClippedRowStored ==
    /\ pc = "loop" /\ r > 0
    /\ polygon_clip # <<>>
    /\ \E k \in 1 .. Len(res) : res[k] = Row(unit, polygon_clip)
    /\ \E j \in 1 .. Len(polygon_onj) :
          \/ polygon_onj[j][1] < SetMin(Xs(centers_2d))
          \/ polygon_onj[j][1] > SetMax(Xs(centers_2d))
          \/ polygon_onj[j][2] < SetMin(Ys(centers_2d))
          \/ polygon_onj[j][2] > SetMax(Ys(centers_2d))

\* the polygon of region k (0-based) clipped to the bounding polygon
ClipOf(k) == Intersection(Coordinates(Item(new_regions, k), new_vertices), Bounds(vor))

\* twice the area of the bounding polygon
BoxArea2(b) == 2 * (b.xmax - b.xmin) * (b.ymax - b.ymin)

\* C11: the clipped polygons of all the sites partition the bounding
\* rectangle: they cover it and no two overlap, so their areas add up to the
\* rectangle's area (to within a sixteenth of it, far above the rounding of
\* the clipped vertices).
C11_ClipsPartitionBox ==
    saved.written =>
        16 * Abs(SumSeq([k \in 1 .. Len(new_regions) |-> Abs(Area2(ClipOf(k - 1)))])
                     - BoxArea2(Bounds(vor))) <= BoxArea2(Bounds(vor))

\* no two sites coincide and no three lie on a line
GeneralPosition(sites) ==
    /\ \A i, j \in 1 .. Len(sites) : i # j => sites[i] # sites[j]
    /\ \A i, j, k \in 1 .. Len(sites) :
          (i < j /\ j < k) => Cross(Vec(sites[i], sites[j]), Vec(sites[i], sites[k])) # 0

\* the turn of a ring at its vertex k
Turn(ring, k) ==
    Cross(Vec(EdgeFrom(ring, k), EdgeTo(ring, k)),
          Vec(EdgeTo(ring, k), EdgeTo(ring, (k % Len(ring)) + 1)))

\* the ring never turns both ways
Convex(ring) ==
    \/ \A k \in 1 .. Len(ring) : Turn(ring, k) >= 0
    \/ \A k \in 1 .. Len(ring) : Turn(ring, k) <= 0

\* C12: for at least 4 sites in general position, the polygon produced for a
\* region is convex, has positive area, and contains the site it is assigned
\* to and no other site.
C12_PolygonHoldsExactlyItsSite ==
    (/\ entry = "save_2d_area" /\ pc \in {"loop", "done"} /\ r > 0
     /\ Len(centers_2d) >= 4 /\ GeneralPosition(centers_2d)) =>
        /\ Convex(polygon_onj)
        /\ Area2(polygon_onj) # 0
        /\ Passing(polygon_onj) = {unit}

\* the four corners of the unit square, in the order the scenario names them
UnitSquare == << <<0, 0>>, <<0, 10>>, <<10, 0>>, <<10, 10>> >>

\* the corners of the quadrant of the unit square at the corner c
Quadrant(c) ==
    { <<x, y>> : x \in {c[1], 5}, y \in {c[2], 5} }

\* the points a stored row lists
RowPoints(row) ==
    { <<Listed(row.X)[j], Listed(row.Y)[j]>> : j \in 1 .. Len(Listed(row.X)) }

\* C13: for the sites (0,0), (0,1), (1,0), (1,1) the output is four polygons,
\* the polygon of each corner is the quadrant of the box at that corner, and
\* the point-in-polygon test of each polygon passes its own corner only.
C13_UnitSquareQuadrants ==
    /\ centers_2d = UnitSquare => pc # "raised"
    /\ (centers_2d = UnitSquare /\ pc \in {"loop", "done"} /\ r > 0) =>
          /\ Passing(polygon_onj) = {r - 1}
          /\ unit = r - 1
          /\ Len(res) = r
          /\ RowPoints(res[r]) = Quadrant(Item(centers_2d, r - 1))
          /\ Len(Listed(res[r].X)) = 5
    /\ (centers_2d = UnitSquare /\ saved.written) =>
          /\ Len(saved.rows) = 4
          /\ \A k \in 1 .. 4 :
                /\ saved.rows[k].unit = k - 1
                /\ RowPoints(saved.rows[k]) = Quadrant(UnitSquare[k])

\* the batch of the unit square was saved
C13_UnitSquareSaved ==
    centers_2d = UnitSquare /\ saved.written /\ pc = "done" /\ Len(saved.rows) = 4

\* the corners of the bounding rectangle of a list of sites
BoxCorners(sites) ==
    { <<x, y>> : x \in {SetMin(Xs(sites)), SetMax(Xs(sites))},
                 y \in {SetMin(Ys(sites)), SetMax(Ys(sites))} }

\* C14: a batch of a single site ends with exactly one polygon in the table,
\* and that polygon is the whole bounding rectangle.
C14_SingleSiteFullBox ==
    (entry = "save_2d_area" /\ Len(centers_2d) = 1 /\ pc \in {"done", "raised"}) =>
        /\ saved.written
        /\ Len(saved.rows) = 1
        /\ RowPoints(saved.rows[1]) = BoxCorners(centers_2d)

\* the row of the table labelled u
RowOf(table, u) == table[CHOOSE k \in 1 .. Len(table) : table[k].unit = u]

\* splitting s on "," and parsing each piece gives the coordinates again
ReadsBack(s, coords) ==
    /\ Len(Split(s)) = Len(coords)
    /\ \A k \in 1 .. Len(coords) :
          IsFloat(Split(s)[k]) /\ Float(Split(s)[k]) = coords[k]

\* C15: for every stored polygon, splitting the X and Y strings of its row on
\* "," and parsing each piece gives the coordinate sequence of the clipped
\* polygon again: same length, same order, same values.
C15_RowReadsBack ==
    (entry = "save_2d_area" /\ pc \in {"loop", "done"} /\ r > 0) =>
        /\ ReadsBack(RowOf(res, unit).X, ExteriorX(polygon_clip))
        /\ ReadsBack(RowOf(res, unit).Y, ExteriorY(polygon_clip))

\* the orders the loop "for r in regions" could take the regions in
Orders ==
    { order \in [1 .. Len(new_regions) -> Indices(new_regions)] :
        \A i, j \in 1 .. Len(new_regions) : i # j => order[i] # order[j] }

\* the row the loop body stores for region k (0-based)
RowFor(k) ==
    Row(UnitOf(Coordinates(Item(new_regions, k), new_vertices), centers_2d), ClipOf(k))

\* the data frame after the loop body has run on the first n regions of an order
RECURSIVE StoredInOrder(_, _)
StoredInOrder(order, n) ==
    IF n = 0 THEN <<>> ELSE SetRow(StoredInOrder(order, n - 1), RowFor(order[n]))

\* the table gathered from the regions taken in an order: res.sort_index()
Gathered(order) == SortIndex(StoredInOrder(order, Len(order)))

\* the labels of a table's rows increase strictly
Ascending(table) == \A k \in 1 .. Len(table) - 1 : table[k].unit < table[k + 1].unit

\* C16: the rows of the persisted table are in strictly ascending order of
\* site index, in whatever order the regions were processed.
C16_RowsAscending ==
    saved.written =>
        /\ Ascending(saved.rows)
        /\ \A order \in Orders : Ascending(Gathered(order))

\* a table of several rows was saved, and some order of processing adds its
\* rows out of order
C16_SavedSeveralRows ==
    /\ saved.written
    /\ Len(saved.rows) >= 3
    /\ \E order \in Orders : ~Ascending(StoredInOrder(order, Len(order)))

\* C17: the persisted table does not depend on the order the regions are
\* processed in: every permutation of the loop gives the same table.
C17_OrderIndependent ==
    saved.written => \A order \in Orders : Gathered(order) = saved.rows

\* the largest squared distance between two sites
MaxSpan2(sites) ==
    SetMax({ Dot(Vec(sites[i], sites[j]), Vec(sites[i], sites[j])) :
               i \in 1 .. Len(sites), j \in 1 .. Len(sites) })

\* C18: the default radius is at least twice the largest distance between
\* two sites: radius squared >= 4 times the largest squared distance.
C18_RadiusCoversSpan ==
    (pc \in {"reconstruct", "returned", "loop", "done"}) =>
        Radius(vor) * Radius(vor) >= 4 * MaxSpan2(vor.points)

\* C19: for every site whose raw region has no -1, the region built for it
\* is the raw region's list of vertex indices: same indices, same order.
C19_FiniteRegionCopied ==
    \A p \in Indices(new_regions) :
        IsFinite(RawRegion(vor, p)) => Item(new_regions, p) = RawRegion(vor, p)

\* the call returned a bounded region of at least three vertices
C19_BoundedRegionReturned ==
    /\ pc \in {"returned", "loop"}
    /\ \E p \in Indices(new_regions) :
          IsFinite(RawRegion(vor, p)) /\ Len(Item(new_regions, p)) >= 3

\* the ridges of site p with an endpoint at infinity, and those with none
UnboundedRidges(v, p) ==
    { k \in 1 .. Len(AllRidges(v, p)) : AllRidges(v, p)[k][2] < 0 \/ AllRidges(v, p)[k][3] < 0 }

BoundedRidges(v, p) ==
    { k \in 1 .. Len(AllRidges(v, p)) : AllRidges(v, p)[k][2] >= 0 /\ AllRidges(v, p)[k][3] >= 0 }

\* the indices a region lists
IndexSet(region) == { region[k] : k \in 1 .. Len(region) }

\* C20: rebuilding an unbounded region gives exactly the raw region's
\* non-negative indices plus one newly appended vertex index for each ridge
\* of the site with an endpoint at infinity; a ridge with two finite
\* endpoints adds nothing.
C20_OneVertexPerUnboundedRidge ==
    [][(AtUnbounded /\ pc' = "reconstruct") =>
          /\ Len(new_regions') = Len(new_regions) + 1
          /\ Len(new_vertices') = Len(new_vertices) + Cardinality(UnboundedRidges(vor, P1))
          /\ SubSeq(new_vertices', 1, Len(new_vertices)) = new_vertices
          /\ IndexSet(new_regions'[Len(new_regions')]) =
                IndexSet(FiniteOnly(RawRegion(vor, P1)))
                    \cup (Len(new_vertices) .. Len(new_vertices') - 1)
          /\ Len(new_regions'[Len(new_regions')]) =
                Len(FiniteOnly(RawRegion(vor, P1))) + Cardinality(UnboundedRidges(vor, P1))]_vars

\* a region was rebuilt for a site that has ridges of both kinds
C20_RebuiltWithBothKinds ==
    /\ pc = "reconstruct"
    /\ P1 > 0
    /\ ~IsFinite(RawRegion(vor, P1 - 1))
    /\ BoundedRidges(vor, P1 - 1) # {}
    /\ UnboundedRidges(vor, P1 - 1) # {}
    /\ Len(Item(new_regions, P1 - 1)) =
          Len(FiniteOnly(RawRegion(vor, P1 - 1))) + Cardinality(UnboundedRidges(vor, P1 - 1))

\* the ridges of site p with an endpoint at infinity, in the order of all_ridges[p]
UnboundedList(v, p) == SelectSeq(AllRidges(v, p), LAMBDA rd : rd[2] < 0 \/ rd[3] < 0)

\* exactly one endpoint of the ridge is at infinity
HalfBounded(rd) == (rd[2] < 0) # (rd[3] < 0)

\* its finite endpoint
FiniteEnd(rd) == Max2(rd[2], rd[3])

\* 2 * len(points) * (midpoint of sites a and b - center)
FromCenter(v, a, b) ==
    << Len(v.points) * (Item(v.points, a)[1] + Item(v.points, b)[1]) - 2 * PointSum(v.points)[1],
       Len(v.points) * (Item(v.points, a)[2] + Item(v.points, b)[2]) - 2 * PointSum(v.points)[2] >>

\* C21: for a ridge with exactly one unbounded endpoint, the synthesized
\* vertex is the finite endpoint displaced by Radius (to the model's tenth)
\* along the normal of the line through the two sites (no more than a tenth
\* along that line), on the side where the dot product with
\* (midpoint - center) is positive.
C21_FarPointAlongOutwardNormal ==
    [][(AtUnbounded /\ pc' = "reconstruct") =>
          \A j \in 1 .. Len(UnboundedList(vor, P1)) :
              LET rd == UnboundedList(vor, P1)[j]
                  far == new_vertices'[Len(new_vertices) + j]
                  disp == Vec(Item(vor.vertices, FiniteEnd(rd)), far)
                  t == Vec(Item(vor.points, P1), Item(vor.points, rd[1]))
              IN  HalfBounded(rd) =>
                      /\ (Radius(vor) - 1) * (Radius(vor) - 1) <= Dot(disp, disp)
                      /\ Dot(disp, disp) <= (Radius(vor) + 1) * (Radius(vor) + 1)
                      /\ Dot(disp, t) * Dot(disp, t) <= Dot(t, t)
                      /\ Dot(disp, FromCenter(vor, P1, rd[1])) > 0]_vars

\* a region was closed over a ridge that has one endpoint at infinity and is
\* not parallel to an axis
C21_SlantedRidgeClosed ==
    /\ pc = "reconstruct"
    /\ P1 > 0
    /\ Len(new_vertices) > Len(vor.vertices)
    /\ \E j \in 1 .. Len(UnboundedList(vor, P1 - 1)) :
          LET rd == UnboundedList(vor, P1 - 1)[j]
              t == Vec(Item(vor.points, P1 - 1), Item(vor.points, rd[1]))
          IN  HalfBounded(rd) /\ t[1] # 0 /\ t[2] # 0

\* the point lies in the bounding rectangle, its sides included
InBox(b, p) == b.xmin <= p[1] /\ p[1] <= b.xmax /\ b.ymin <= p[2] /\ p[2] <= b.ymax

\* C22: every synthesized vertex lies outside the bounding rectangle of the sites.
C22_FarPointsOutsideBox ==
    (pc \in {"reconstruct", "returned", "loop", "done"}) =>
        \A k \in (Len(vor.vertices) + 1) .. Len(new_vertices) :
            ~InBox(Bounds(vor), new_vertices[k])

\* the segments from a to b and from c to d cross or touch
SegmentsMeet(a, b, c, d) ==
    /\ Sign(Cross(Vec(a, b), Vec(a, c))) * Sign(Cross(Vec(a, b), Vec(a, d))) <= 0
    /\ Sign(Cross(Vec(c, d), Vec(c, a))) * Sign(Cross(Vec(c, d), Vec(c, b))) <= 0
    /\ Max2(a[1], b[1]) >= Min2(c[1], d[1]) /\ Max2(c[1], d[1]) >= Min2(a[1], b[1])
    /\ Max2(a[2], b[2]) >= Min2(c[2], d[2]) /\ Max2(c[2], d[2]) >= Min2(a[2], b[2])

\* no two edges of the ring meet, except neighbours at their common vertex
Simple(ring) ==
    \A i, j \in 1 .. Len(ring) :
        (i < j /\ j # i + 1 /\ ~(i = 1 /\ j = Len(ring))) =>
            ~SegmentsMeet(EdgeFrom(ring, i), EdgeTo(ring, i), EdgeFrom(ring, j), EdgeTo(ring, j))

\* the ring turns counterclockwise: it encloses a positive signed area
Counterclockwise(ring) == Area2(ring) > 0

\* C23: every polygon returned by the reconstruction, copied or rebuilt,
\* lists its vertices counterclockwise and is a simple polygon.
C23_RegionsCounterclockwise ==
    \A p \in Indices(new_regions) :
        LET ring == Coordinates(Item(new_regions, p), new_vertices)
        IN  Len(ring) >= 3 => Counterclockwise(ring) /\ Simple(ring)

\* C24: the unit assigned to a region is a function of the region's polygon
\* before clipping and of the list of sites, and of nothing else: the
\* bounding rectangle and the clipped polygon have no part in it.
C24_OwnerFromPolygonOnly ==
    (entry = "save_2d_area" /\ pc \in {"loop", "done"} /\ r > 0) =>
        unit = UnitOf(Coordinates(Item(new_regions, r - 1), new_vertices), centers_2d)

\* a unit was assigned whose site is inside the polygon and not inside the
\* clipped polygon: the test on the clipped polygon would name another unit
C24_ClipWouldChangeOwner ==
    /\ entry = "save_2d_area" /\ pc = "loop" /\ r > 0
    /\ unit \in Passing(polygon_onj)
    /\ polygon_clip # <<>>
    /\ unit \notin Passing(polygon_clip)
    /\ UnitOf(polygon_clip, centers_2d) # unit

\* how many times a region lists the index i
Occurrences(region, i) == Cardinality({k \in 1 .. Len(region) : region[k] = i})

\* C25: the vertex table only grows by appending: a step of the
\* reconstruction leaves every vertex already in the table, the adapter's
\* included, at its index with its coordinates; the indices it appends are
\* listed once by the region it closes; and every synthesized index is
\* listed by exactly one region.
C25_VertexTableAppendOnly ==
    [][pc = "reconstruct" =>
          /\ SubSeq(new_vertices', 1, Len(new_vertices)) = new_vertices
          /\ SubSeq(new_vertices', 1, Len(vor.vertices)) = vor.vertices
          /\ SubSeq(new_regions', 1, Len(new_regions)) = new_regions
          /\ \A i \in Len(new_vertices) .. Len(new_vertices') - 1 :
                Occurrences(new_regions'[Len(new_regions')], i) = 1
          /\ \A i \in Len(vor.vertices) .. Len(new_vertices') - 1 :
                Cardinality({k \in 1 .. Len(new_regions') :
                                Occurrences(new_regions'[k], i) > 0}) = 1]_vars

\* several regions were closed, each with synthesized vertices of its own
C25_SeveralRegionsClosed ==
    /\ pc \in {"returned", "loop"}
    /\ Len(new_vertices) >= Len(vor.vertices) + 4
    /\ Cardinality({p \in Indices(new_regions) :
                      \E i \in Len(vor.vertices) .. Len(new_vertices) - 1 :
                          Occurrences(Item(new_regions, p), i) > 0}) >= 2

-----------------------------------------------------------------------------
(* src/preprocessing/units_to_audio.py: update_items_list *)

\* Largest max_len update_items_list is called with, largest length of an
\* item offered to it, and how many calls are made.
MaxKept == 2
MaxLength == 2
MaxCalls == 4

\* the variables of voronoi.py other than entry, pc and error
batch_vars ==
    <<centers_2d, vor, new_regions, new_vertices, r, polygon_onj, polygon_clip, unit, res, saved>>

\* no call of voronoi.py is under way
NoBatch == centers_2d = <<>> /\ vor = NoDiagram /\ Locals

\* [x.length for x in list_]
ElementsLength(list) == [k \in 1 .. Len(list) |-> list[k].length]

\* a wrong index: that of the first longest item
MaxIndex(list) ==
    (CHOOSE k \in 1 .. Len(list) :
        /\ \A j \in 1 .. Len(list) : ElementsLength(list)[k] >= ElementsLength(list)[j]
        /\ \A j \in 1 .. k - 1 : ElementsLength(list)[j] # ElementsLength(list)[k]) - 1

\* elements_length.index(min(elements_length)): the index of the first shortest item
MinIndex(list) ==
    (CHOOSE k \in 1 .. Len(list) :
        /\ \A j \in 1 .. Len(list) : ElementsLength(list)[k] <= ElementsLength(list)[j]
        /\ \A j \in 1 .. k - 1 : ElementsLength(list)[j] # ElementsLength(list)[k]) - 1

\* update_items_list(list_, item, max_len), for max_len >= 1: the list after the call
UpdateItemsList(list, item, limit) ==
    IF Len(list) < limit THEN Append(list, item)
    ELSE IF item.length > Item(ElementsLength(list), MinIndex(list))
         THEN [list EXCEPT ![MinIndex(list) + 1] = item]
         ELSE list

InitItems ==
    /\ entry = "update_items_list"
    /\ pc = "idle"
    /\ NoBatch
    /\ NoClick
    /\ list_ = <<>>
    /\ max_len \in 1 .. MaxKept
    /\ offered = <<>>
    /\ dataset = <<>>
    /\ file_index = 0
    /\ i_ = 0
    /\ unit_item = DefaultItem
    /\ units_map = <<>>
    /\ wav = <<>>

\* one call of update_items_list, with an item of any length
Offer ==
    /\ pc = "idle"
    /\ Len(offered) < MaxCalls
    /\ \E length \in 0 .. MaxLength :
          LET item == [DefaultItem EXCEPT !.length = length, !.index_start = Len(offered)]
          IN  /\ list_' = UpdateItemsList(list_, item, max_len)
              /\ offered' = Append(offered, item)
    /\ UNCHANGED <<batch_vars, click_vars, entry, pc, error, max_len, dataset, file_index,
                   i_, unit_item, units_map, wav>>

SpecItems == InitItems /\ [][Offer]_vars

\* a sequence of numbers with x inserted, largest first
RECURSIVE InsertDescending(_, _)
InsertDescending(sorted, x) ==
    IF sorted = <<>> THEN <<x>>
    ELSE IF x >= Head(sorted) THEN <<x>> \o sorted
    ELSE <<Head(sorted)>> \o InsertDescending(Tail(sorted), x)

\* the lengths of a list of items, largest first
RECURSIVE LengthsDescending(_)
LengthsDescending(list) ==
    IF list = <<>> THEN <<>>
    ELSE InsertDescending(LengthsDescending(Tail(list)), Head(list).length)

\* C26: after any sequence of calls on an empty list, the list holds at most
\* max_len items, and their lengths are the max_len largest lengths of all
\* the items offered so far, as a multiset.
C26_KeepsLongestItems ==
    entry = "update_items_list" =>
        /\ Len(list_) <= max_len
        /\ LengthsDescending(list_) =
              SubSeq(LengthsDescending(offered), 1, Min2(max_len, Len(offered)))

\* the list is full, an offered item has replaced a shorter one, and an
\* offered item no longer than the shortest was turned down
C26_ReplacedAndRefused ==
    /\ entry = "update_items_list"
    /\ Len(list_) = max_len
    /\ \E k \in 1 .. Len(list_) : list_[k].index_start >= max_len
    /\ \E k \in (max_len + 1) .. Len(offered) :
          /\ \A j \in 1 .. Len(list_) : list_[j] # offered[k]
          /\ \E j \in 1 .. Len(list_) : list_[j].length = offered[k].length

-----------------------------------------------------------------------------
(* src/preprocessing/units_to_audio.py: save_units_audio *)

\* Size of the vocabulary, largest number of files of the dataset, and
\* largest number of units a file is encoded to.
MaxVocab == 2
MaxFiles == 2
MaxUnits == 3

\* samples of the waveform per unit: int(get_model_units_seconds(dense_model) * SR)
unit_count == 2

\* range(vocab)
UnitIds == 0 .. MaxVocab - 1

\* encoder.encode(waveform) of one file: a non-empty sequence of units
Encoded == UNION { [1 .. n -> UnitIds] : n \in 1 .. MaxUnits }

\* the datasets: each file is given by the units it is encoded to
Datasets == UNION { [1 .. n -> Encoded] : n \in 0 .. MaxFiles }

\* dataset[file_index], flattened: every unit spans unit_count samples, and a
\* sample is named by its file and its position
Waveform(f) == [k \in 1 .. Len(dataset[f + 1]) * unit_count |-> <<f, k - 1>>]

\* data[a:b] for 0 <= a <= b
Slice(data, a, b) == SubSeq(data, a + 1, Min2(b, Len(data)))

\* index_to_data(data, index, unit_count, length, max_len)
IndexToData(data, index, count, length, limit) ==
    Slice(data, index * count, (index + Min2(limit, length)) * count)

\* fill_item_audio(dataset, item, unit_count): the item with its audio
FillItemAudio(item) ==
    [item EXCEPT !.audio =
        IndexToData(Waveform(item.file_index), item.index_start, unit_count, item.length, 10)]

\* np.concatenate([list(x.audio) for x in item_list])
RECURSIVE Concatenate(_)
Concatenate(item_list) ==
    IF item_list = <<>> THEN <<>>
    ELSE Head(item_list).audio \o Concatenate(Tail(item_list))

\* units of the file the outer loop is at
Units == dataset[file_index + 1]

InitAudio ==
    /\ entry = "save_units_audio"
    /\ pc = "files"
    /\ NoBatch
    /\ NoClick
    /\ list_ = <<>>
    /\ max_len = 100
    /\ offered = <<>>
    /\ dataset \in Datasets
    /\ file_index = 0
    /\ i_ = 0
    /\ unit_item = DefaultItem
    /\ units_map = [u \in UnitIds |-> <<>>]
    /\ wav = <<>>

\* line 108: the outer loop takes the next file
StartFile ==
    /\ pc = "files"
    /\ file_index < Len(dataset)
    /\ unit_item' = [DefaultItem EXCEPT !.file_index = file_index,
                                        !.unit = Item(Units, 0)]
    /\ i_' = 0
    /\ pc' = "units"
    /\ UNCHANGED <<batch_vars, click_vars, entry, error, list_, max_len, offered, dataset,
                   file_index, units_map, wav>>

\* lines 111-112: the next unit continues the run
SameUnit ==
    /\ pc = "units"
    /\ i_ < Len(Units) - 1
    /\ Item(Units, i_ + 1) = unit_item.unit
    /\ unit_item' = [unit_item EXCEPT !.length = @ + 1]
    /\ i_' = i_ + 1
    /\ UNCHANGED <<batch_vars, click_vars, entry, pc, error, list_, max_len, offered,
                   dataset, file_index, units_map, wav>>

\* lines 113-115: the next unit starts a run; the item of the run before is offered
OtherUnit ==
    /\ pc = "units"
    /\ i_ < Len(Units) - 1
    /\ Item(Units, i_ + 1) # unit_item.unit
    /\ units_map' = [units_map EXCEPT
                        ![unit_item.unit] = UpdateItemsList(@, unit_item, max_len)]
    /\ offered' = Append(offered, unit_item)
    /\ unit_item' = [DefaultItem EXCEPT !.file_index = file_index,
                                        !.unit = Item(Units, i_ + 1),
                                        !.index_start = i_ + 1]
    /\ i_' = i_ + 1
    /\ UNCHANGED <<batch_vars, click_vars, entry, pc, error, list_, max_len, dataset,
                   file_index, wav>>

\* the inner loop is over: on to the next file
EndFile ==
    /\ pc = "units"
    /\ i_ = Len(Units) - 1
    /\ file_index' = file_index + 1
    /\ pc' = "files"
    /\ UNCHANGED <<batch_vars, click_vars, entry, error, list_, max_len, offered, dataset,
                   i_, unit_item, units_map, wav>>

\* lines 116-124: the audio of every unit that has items is written
WriteAudio ==
    /\ pc = "files"
    /\ file_index = Len(dataset)
    /\ wav' = [u \in {v \in UnitIds : Len(units_map[v]) > 0} |->
                  Concatenate([k \in 1 .. Len(units_map[u]) |->
                                  FillItemAudio(units_map[u][k])])]
    /\ units_map' = [u \in UnitIds |->
                        IF Len(units_map[u]) > 0 THEN <<DefaultItem>> ELSE <<>>]
    /\ pc' = "done"
    /\ UNCHANGED <<batch_vars, click_vars, entry, error, list_, max_len, offered, dataset,
                   file_index, i_, unit_item>>

NextAudio == StartFile \/ SameUnit \/ OtherUnit \/ EndFile \/ WriteAudio

SpecAudio == InitAudio /\ [][NextAudio]_vars

\* the maximal runs of equal consecutive units: <<first position, size>>
Runs(units) ==
    { <<s, n>> \in (0 .. Len(units) - 1) \X (1 .. Len(units)) :
        /\ s + n <= Len(units)
        /\ \A k \in s .. s + n - 1 : Item(units, k) = Item(units, s)
        /\ s > 0 => Item(units, s - 1) # Item(units, s)
        /\ s + n < Len(units) => Item(units, s + n) # Item(units, s) }

\* the calls of update_items_list made for the run at position s of file f
OfferedFor(f, s) ==
    { k \in 1 .. Len(offered) : offered[k].file_index = f /\ offered[k].index_start = s }

\* C27: when save_units_audio has gone through the files, every maximal run
\* of every file, the last one included, has had exactly one item offered to
\* update_items_list, with the run's unit, index_start at the run's first
\* position and length equal to the number of units of the run.
C27_OneItemPerRun ==
    (entry = "save_units_audio" /\ pc = "done") =>
        \A f \in 0 .. Len(dataset) - 1 :
            \A run \in Runs(dataset[f + 1]) :
                /\ Cardinality(OfferedFor(f, run[1])) = 1
                /\ \A k \in OfferedFor(f, run[1]) :
                      /\ offered[k].unit = Item(dataset[f + 1], run[1])
                      /\ offered[k].length = run[2]

-----------------------------------------------------------------------------
(* src/main.py: get_unit_and_vocab *)

\* Largest curveNumber of a clicked point and largest number of vocabulary
\* sizes ticked in the opt_units checklist.
MaxCurve == 3
MaxOptions == 2

\* the texts a clicked point carries and the vocabulary sizes on offer
Texts == {"17", "42"}
VocabSizes == {50, 100}

\* points[0] of a click: a dictionary that may lack 'text' or 'curveNumber'
Points ==
    [text : Texts, curveNumber : 0 .. MaxCurve] \cup [text : Texts]
        \cup [curveNumber : 0 .. MaxCurve] \cup {[key \in {} |-> 0]}

\* the click data: None, or a dictionary with the clicked points
ClickData == {None} \cup {Some([points |-> <<pt>>]) : pt \in Points}

\* the value of the opt_units checklist
OptUnits == UNION { [1 .. n -> VocabSizes] : n \in 0 .. MaxOptions }

\* click_data['points'][0]
FirstPoint(data) == Item(data[1].points, 0)

\* the condition of line 28
HasUnitAndCurve(data) ==
    /\ data # None
    /\ "text" \in DOMAIN FirstPoint(data)
    /\ "curveNumber" \in DOMAIN FirstPoint(data)

InitClick ==
    /\ entry = "get_unit_and_vocab"
    /\ pc = "call"
    /\ NoBatch
    /\ NoAudio
    /\ click_data \in ClickData
    /\ opt_units \in OptUnits
    /\ result = <<None, None>>

\* lines 27, 28 and 32: the click data names no unit
ReturnNone ==
    /\ pc = "call"
    /\ ~HasUnitAndCurve(click_data)
    /\ result' = <<None, None>>
    /\ pc' = "returned"
    /\ UNCHANGED <<batch_vars, audio_vars, entry, error, click_data, opt_units>>

\* lines 30-32: the unit and the vocabulary size of its curve
ReturnUnit ==
    /\ pc = "call"
    /\ HasUnitAndCurve(click_data)
    /\ FirstPoint(click_data)["curveNumber"] < Len(opt_units)
    /\ result' = <<Some(FirstPoint(click_data)["text"]),
                   Some(Item(opt_units, FirstPoint(click_data)["curveNumber"]))>>
    /\ pc' = "returned"
    /\ UNCHANGED <<batch_vars, audio_vars, entry, error, click_data, opt_units>>

\* line 31: opt_units has no entry at curveNumber
RaiseIndexError ==
    /\ pc = "call"
    /\ HasUnitAndCurve(click_data)
    /\ FirstPoint(click_data)["curveNumber"] >= Len(opt_units)
    /\ error' = "IndexError"
    /\ pc' = "raised"
    /\ UNCHANGED <<batch_vars, audio_vars, entry, click_data, opt_units, result>>

NextClick == ReturnNone \/ ReturnUnit \/ RaiseIndexError

SpecClick == InitClick /\ [][NextClick]_vars

\* C28: get_unit_and_vocab never raises. It returns (None, None) when the
\* click data is absent, when its first point lacks 'text' or 'curveNumber',
\* or when curveNumber selects no entry of opt_units; otherwise it returns
\* the point's text and opt_units[curveNumber].
C28_NeverRaises ==
    (entry = "get_unit_and_vocab" /\ pc # "call") =>
        /\ pc = "returned"
        /\ IF /\ HasUnitAndCurve(click_data)
              /\ FirstPoint(click_data)["curveNumber"] < Len(opt_units)
           THEN result = <<Some(FirstPoint(click_data)["text"]),
                           Some(Item(opt_units, FirstPoint(click_data)["curveNumber"]))>>
           ELSE result = <<None, None>>

====
